---- MODULE Spec2Model ----
(***************************************************************************)
(* The bulk-messaging campaign pipeline of whatomate: the campaign API     *)
(* handlers (start, pause, cancel, retry-failed, import, delete), the      *)
(* Redis-stream consumer group, and the worker that drains it.             *)
(*                                                                         *)
(* The relational store is the variables camp, rcpt and msgs; every SQL    *)
(* statement is atomic.  An API handler is one action.  The worker is a    *)
(* process whose position is w[k].pc; it takes one step per group of       *)
(* store/queue statements, so handlers and other workers interleave with   *)
(* it.  Timestamps are abstracted to 0 (NULL) and two non-null stamps; a   *)
(* write of time.Now() stores a stamp different from the stored one.       *)
(*                                                                         *)
(* The queue producer behind Queue.EnqueueRecipients is not part of the    *)
(* sources: it is modelled from the specification as appending one entry   *)
(* per job, in order, of the type the consumer dispatches on, and as       *)
(* failing after any strict prefix of the batch.                           *)
(***************************************************************************)
EXTENDS Integers, Sequences, FiniteSets, TLC

\* ------------------------------------------------------------------ bounds
\* recipient rows ever created
MaxRecipients == 2
\* entries ever appended to the stream
MaxStream == 3
\* worker process deaths
MaxCrashes == 1
MaxLedger == 3

CampaignIds == {1, 2}
OrgIds == {1, 2}
RecipientIds == 1..MaxRecipients
WorkerIds == {"w1", "w2"}

VARIABLES
    camp,      \* bulk_message_campaigns: campaign id -> row
    rcpt,      \* bulk_message_recipients: recipient id -> row
    ridSeq,    \* number of recipient rows created so far (ids are never reused)
    imp,       \* import requests in flight: request -> position and count read
    tmpl,      \* a recipient's template_params and the components sent for them
    msgs,      \* messages ledger: campaign id -> number of messages by status
    acct,      \* whether the campaign's WhatsApp account row resolves
    stream,    \* the Redis stream: sequence of entries
    lastId,    \* the consumer group's last-delivered id (index into stream)
    pel,       \* the group's pending-entries list: entry id -> owner and idleness
    w,         \* worker processes: consumer loop position and locals
    sends,     \* gateway: send calls made per recipient since it last became pending
    crashes,   \* number of worker deaths so far
    resp,      \* the last API response
    gw,        \* gateway: status of the message it last accepted per recipient
    sendsSinceStop  \* per worker: sends started since a pause or cancel was
                    \* committed and not followed by a start, retry or delete

vars == <<camp, rcpt, ridSeq, imp, tmpl, msgs, acct, stream, lastId, pel, w, sends, crashes, resp,
          gw, sendsSinceStop>>

dbVars == <<camp, rcpt, ridSeq, imp, tmpl, msgs, acct>>
queueVars == <<stream, lastId, pel>>

\* ------------------------------------------------------------- data model
Statuses == {"draft", "scheduled", "queued", "processing", "paused",
             "completed", "cancelled", "failed"}

\* a campaign id with no row: never created, or deleted
NoCampaign == [org |-> 0, name |-> 0, status |-> "absent", total_recipients |-> 0,
               sent_count |-> 0, failed_count |-> 0, delivered_count |-> 0,
               read_count |-> 0, started_at |-> 0, completed_at |-> 0]

DeletedCampaign == [NoCampaign EXCEPT !.status = "deleted"]

NoRecipient == [camp |-> 0, status |-> "none", error_message |-> "",
                message_id |-> "", sent_at |-> 0]

\* the import requests that can be in flight at once
ImportRequests == {"a", "b"}

\* no import request in flight
NoImport == [pc |-> "idle", camp |-> 0, totalCount |-> 0]

NoMessages == [pending |-> 0, sent |-> 0, delivered |-> 0, read |-> 0, failed |-> 0]

\* time.Now(): a stamp different from the stored one
Now(old) == IF old = 1 THEN 2 ELSE 1

RowExists(c) == camp[c].status \in Statuses

FindByIDAndOrg_AnyOrg(o, c) == RowExists(c)

\* WHERE id = ? AND organization_id = ?
FindByIDAndOrg(o, c) == RowExists(c) /\ camp[c].org = o

\* WHERE campaign_id = ? AND status = ?
RecipientsWith(c, st) == {r \in RecipientIds : rcpt[r].camp = c /\ rcpt[r].status = st}

RecipientsOf(c) == {r \in RecipientIds : rcpt[r].camp = c}

\* a result set in id (creation) order
RECURSIVE AsList(_)
AsList(S) == IF S = {} THEN <<>>
             ELSE LET m == CHOOSE x \in S : \A y \in S : x <= y
                  IN <<m>> \o AsList(S \ {m})

\* --------------------------------------------------------------- producer
JobTypeCampaign == "campaign"

\* a healthy queue: the batch is appended whole
HealthyOutcomes(n) == {[ok |-> TRUE, appended |-> n]}

\* Outcomes of a batch enqueue of n jobs: all n appended and no error, or,
\* with a queue that may fail, an error after k < n were appended.
EnqueueOutcomes(mayFail, n) ==
    HealthyOutcomes(n) \cup
    (IF mayFail THEN {[ok |-> FALSE, appended |-> k] : k \in 0..(n - 1)} ELSE {})

NoneWith_Never(c, st) == FALSE

\* len(recipients) == 0 of the result set loaded with status st
NoneWith(c, st) == RecipientsWith(c, st) = {}

JobsFor_WholeCampaign(c, st) == AsList(RecipientsOf(c))

\* the jobs a handler builds: one per recipient row of the loaded result set
JobsFor(c, st) == AsList(RecipientsWith(c, st))

\* one stream entry per job, in the order of the batch
RECURSIVE Entries(_, _)
Entries(c, jobs) ==
    IF jobs = <<>> THEN <<>>
    ELSE <<[type |-> JobTypeCampaign, payload |-> "json",
            campaign_id |-> c, recipient_id |-> Head(jobs)]>>
         \o Entries(c, Tail(jobs))

EnqueueRecipients(c, jobs, out) ==
    stream' = stream \o Entries(c, SubSeq(jobs, 1, out.appended))

\* ------------------------------------------------------------ API guards
CanStart(s) == s \in {"draft", "scheduled", "paused"}
CanPause_AlsoDraft(s) == s \in {"processing", "queued", "draft"}
CanPause(s) == s \in {"processing", "queued"}
CanCancel_NotDraft(s) == s \notin {"completed", "cancelled", "draft"}
CanCancel(s) == s \notin {"completed", "cancelled"}
CanRetry(s) == s \in {"completed", "paused", "failed"}
CanImport(s) == s = "draft"
CanDelete(s) == s \notin {"processing", "queued"}

\* no pause or cancel is in force / one was just committed
NoStop == [k \in WorkerIds |-> -1]
StopCommitted == [k \in WorkerIds |-> 0]

Response(op, c, code, msg) == [op |-> op, camp |-> c, code |-> code, msg |-> msg]

Reject(op, c, code, msg) ==
    /\ resp' = Response(op, c, code, msg)
    /\ UNCHANGED <<dbVars, queueVars, w, sends, crashes, gw, sendsSinceStop>>

\* ----------------------------------------------------------- API handlers
CreateCampaign(o, c) ==
    /\ camp[c].status = "absent"
    /\ camp' = [camp EXCEPT ![c] = [NoCampaign EXCEPT !.org = o, !.status = "draft"]]
    /\ resp' = Response("create", c, 200, "")
    /\ UNCHANGED <<rcpt, ridSeq, imp, tmpl, msgs, acct, queueVars, w, sends, crashes, gw, sendsSinceStop>>

\* the names a request can carry
Names == {1}

\* WHERE organization_id = ?
ListCampaignsOf(o) == {c \in CampaignIds : RowExists(c) /\ camp[c].org = o}

ListCampaigns(o) ==
    /\ resp' = Response("list", 0, 200, ListCampaignsOf(o))
    /\ UNCHANGED <<dbVars, queueVars, w, sends, crashes, gw, sendsSinceStop>>

GetCampaign(o, c) ==
    IF ~FindByIDAndOrg(o, c) THEN Reject("get", c, 404, "Campaign not found")
    ELSE /\ resp' = Response("get", c, 200, camp[c])
         /\ UNCHANGED <<dbVars, queueVars, w, sends, crashes, gw, sendsSinceStop>>

\* the update handler: name and schedule of a draft campaign
UpdateCampaignRequest(o, c, name) ==
    IF ~FindByIDAndOrg(o, c) THEN Reject("update", c, 404, "Campaign not found")
    ELSE IF camp[c].status # "draft"
    THEN Reject("update", c, 400, "Can only update draft campaigns")
    ELSE /\ camp' = [camp EXCEPT ![c].name = name]
         /\ resp' = Response("update", c, 200, camp'[c])
         /\ UNCHANGED <<rcpt, ridSeq, imp, tmpl, msgs, acct, queueVars, w, sends, crashes, gw,
                        sendsSinceStop>>

GetCampaignRecipients(o, c) ==
    IF ~FindByIDAndOrg(o, c) THEN Reject("recipients", c, 404, "Campaign not found")
    ELSE /\ resp' = Response("recipients", c, 200, AsList(RecipientsOf(c)))
         /\ UNCHANGED <<dbVars, queueVars, w, sends, crashes, gw, sendsSinceStop>>

\* The campaign becomes due at its scheduled time.
ScheduleCampaign(c) ==
    /\ camp[c].status = "draft"
    /\ camp' = [camp EXCEPT ![c].status = "scheduled"]
    /\ UNCHANGED <<rcpt, ridSeq, imp, tmpl, msgs, acct, queueVars, w, sends, crashes, resp, gw, sendsSinceStop>>

\* The status the start handler writes back when the enqueue fails.
StartRevertStatus_NoRevert(prev) == "processing"
StartRevertStatus(prev) == "draft"

StartCampaign(o, c, mayFail) ==
    IF ~FindByIDAndOrg(o, c) THEN Reject("start", c, 404, "Campaign not found")
    ELSE IF ~CanStart(camp[c].status)
    THEN Reject("start", c, 400, "Campaign cannot be started in current state")
    ELSE IF NoneWith(c, "pending")
    THEN Reject("start", c, 400, "Campaign has no pending recipients")
    ELSE \E out \in EnqueueOutcomes(mayFail, Len(JobsFor(c, "pending"))) :
           /\ Len(stream) + out.appended <= MaxStream
           /\ EnqueueRecipients(c, JobsFor(c, "pending"), out)
           /\ camp' = [camp EXCEPT
                 ![c].status = IF out.ok THEN "processing"
                               ELSE StartRevertStatus(camp[c].status),
                 ![c].started_at = Now(@)]
           /\ resp' = IF out.ok THEN Response("start", c, 200, "Campaign started")
                      ELSE Response("start", c, 500, "Failed to queue recipients")
           /\ sendsSinceStop' = NoStop
           /\ UNCHANGED <<rcpt, ridSeq, imp, tmpl, msgs, acct, lastId, pel, w, sends, crashes, gw>>

PauseCampaign_DropsPending(o, c) ==
    IF ~FindByIDAndOrg(o, c) THEN Reject("pause", c, 404, "Campaign not found")
    ELSE IF ~CanPause(camp[c].status)
    THEN Reject("pause", c, 400, "Campaign is not running")
    ELSE /\ camp' = [camp EXCEPT ![c].status = "paused"]
         /\ rcpt' = [r \in RecipientIds |->
                        IF rcpt[r].camp = c /\ rcpt[r].status = "pending"
                        THEN [rcpt[r] EXCEPT !.status = "failed", !.error_message = "paused"]
                        ELSE rcpt[r]]
         /\ resp' = Response("pause", c, 200, "Campaign paused")
         /\ sendsSinceStop' = StopCommitted
         /\ UNCHANGED <<ridSeq, imp, tmpl, msgs, acct, queueVars, w, sends, crashes, gw>>

PauseCampaign(o, c) ==
    IF ~FindByIDAndOrg(o, c) THEN Reject("pause", c, 404, "Campaign not found")
    ELSE IF ~CanPause(camp[c].status)
    THEN Reject("pause", c, 400, "Campaign is not running")
    ELSE /\ camp' = [camp EXCEPT ![c].status = "paused"]
         /\ resp' = Response("pause", c, 200, "Campaign paused")
         /\ sendsSinceStop' = StopCommitted
         /\ UNCHANGED <<rcpt, ridSeq, imp, tmpl, msgs, acct, queueVars, w, sends, crashes, gw>>

CancelCampaign(o, c) ==
    IF ~FindByIDAndOrg(o, c) THEN Reject("cancel", c, 404, "Campaign not found")
    ELSE IF ~CanCancel(camp[c].status)
    THEN Reject("cancel", c, 400, "Campaign already finished")
    ELSE /\ camp' = [camp EXCEPT ![c].status = "cancelled"]
         /\ resp' = Response("cancel", c, 200, "Campaign cancelled")
         /\ sendsSinceStop' = StopCommitted
         /\ UNCHANGED <<rcpt, ridSeq, imp, tmpl, msgs, acct, queueVars, w, sends, crashes, gw>>

RecalculatedStats_SentOnly(row, m) ==
    [row EXCEPT !.sent_count = m.sent,
                !.delivered_count = m.delivered + m.read,
                !.read_count = m.read,
                !.failed_count = m.failed]

\* recalculateCampaignStats: counters recomputed from the messages ledger
RecalculatedStats(row, m) ==
    [row EXCEPT !.sent_count = m.sent + m.delivered + m.read,
                !.delivered_count = m.delivered + m.read,
                !.read_count = m.read,
                !.failed_count = m.failed]

ResetFailedRecipients_AlsoSent(c) ==
    [r \in RecipientIds |->
        IF rcpt[r].camp = c /\ rcpt[r].status \in {"failed", "sent"}
        THEN [rcpt[r] EXCEPT !.status = "pending", !.error_message = ""]
        ELSE rcpt[r]]

\* UPDATE ... SET status = 'pending', error_message = '' WHERE status = 'failed'
ResetFailedRecipients(c) ==
    [r \in RecipientIds |->
        IF rcpt[r].camp = c /\ rcpt[r].status = "failed"
        THEN [rcpt[r] EXCEPT !.status = "pending", !.error_message = ""]
        ELSE rcpt[r]]

ResetFailedMessages(m) == [m EXCEPT !.pending = @ + m.failed, !.failed = 0]

\* The status the retry handler leaves when the enqueue fails (it returns
\* without writing the status again).
RetryFailureStatus(prev) == "processing"

RetryFailed(o, c, mayFail) ==
    IF ~FindByIDAndOrg(o, c) THEN Reject("retry", c, 404, "Campaign not found")
    ELSE IF ~CanRetry(camp[c].status)
    THEN Reject("retry", c, 400, "Can only retry failed messages on completed, paused, or failed campaigns")
    ELSE IF NoneWith(c, "failed")
    THEN Reject("retry", c, 400, "No failed messages to retry")
    ELSE \E out \in EnqueueOutcomes(mayFail, Len(JobsFor(c, "failed"))) :
           /\ Len(stream) + out.appended <= MaxStream
           /\ EnqueueRecipients(c, JobsFor(c, "failed"), out)
           /\ rcpt' = ResetFailedRecipients(c)
           /\ msgs' = [msgs EXCEPT ![c] = ResetFailedMessages(@)]
           /\ camp' = [camp EXCEPT ![c] =
                 [RecalculatedStats(@, msgs'[c]) EXCEPT
                     !.status = IF out.ok THEN "processing"
                                ELSE RetryFailureStatus(camp[c].status)]]
           /\ resp' = IF out.ok THEN Response("retry", c, 200, "Retrying failed messages")
                      ELSE Response("retry", c, 500, "Failed to queue recipients")
           /\ sends' = [r \in RecipientIds |->
                            IF rcpt[r].camp = c /\ rcpt[r].status = "failed"
                            THEN 0 ELSE sends[r]]
           /\ sendsSinceStop' = NoStop
           /\ UNCHANGED <<ridSeq, imp, tmpl, acct, lastId, pel, w, crashes, gw>>

ImportRecipients(o, c, n) ==
    IF ~FindByIDAndOrg(o, c) THEN Reject("import", c, 404, "Campaign not found")
    ELSE IF ~CanImport(camp[c].status)
    THEN Reject("import", c, 400, "Can only add recipients to draft campaigns")
    ELSE /\ ridSeq + n <= MaxRecipients
         /\ rcpt' = [r \in RecipientIds |->
                        IF r > ridSeq /\ r <= ridSeq + n
                        THEN [NoRecipient EXCEPT !.camp = c, !.status = "pending"]
                        ELSE rcpt[r]]
         /\ ridSeq' = ridSeq + n
         /\ camp' = [camp EXCEPT ![c].total_recipients =
                        Cardinality({r \in RecipientIds : rcpt'[r].camp = c})]
         /\ resp' = Response("import", c, 200, "Recipients added successfully")
         /\ UNCHANGED <<imp, tmpl, msgs, acct, queueVars, w, sends, crashes, gw, sendsSinceStop>>

\* The same handler as three steps, so that two requests can interleave.
\* Step 1: the lookup, the status check and the INSERT of the recipients.
ImportCreate(q, o, c, n) ==
    /\ imp[q].pc = "idle"
    /\ IF ~FindByIDAndOrg(o, c) THEN Reject("import", c, 404, "Campaign not found")
       ELSE IF ~CanImport(camp[c].status)
       THEN Reject("import", c, 400, "Can only add recipients to draft campaigns")
       ELSE /\ ridSeq + n <= MaxRecipients
            /\ rcpt' = [r \in RecipientIds |->
                           IF r > ridSeq /\ r <= ridSeq + n
                           THEN [NoRecipient EXCEPT !.camp = c, !.status = "pending"]
                           ELSE rcpt[r]]
            /\ ridSeq' = ridSeq + n
            /\ imp' = [imp EXCEPT ![q] = [pc |-> "count", camp |-> c, totalCount |-> 0]]
            /\ UNCHANGED <<camp, tmpl, msgs, acct, queueVars, w, sends, crashes, resp, gw,
                           sendsSinceStop>>

\* Step 2: SELECT count(*) of the campaign's recipients
ImportCount(q) ==
    /\ imp[q].pc = "count"
    /\ imp' = [imp EXCEPT ![q].pc = "update",
                          ![q].totalCount = Cardinality(RecipientsOf(imp[q].camp))]
    /\ UNCHANGED <<camp, rcpt, ridSeq, tmpl, msgs, acct, queueVars, w, sends, crashes, resp,
                   gw, sendsSinceStop>>

\* Step 3: UPDATE total_recipients with the count read, and the response
ImportUpdate(q) ==
    /\ imp[q].pc = "update"
    /\ camp' = IF RowExists(imp[q].camp)
               THEN [camp EXCEPT ![imp[q].camp].total_recipients = imp[q].totalCount]
               ELSE camp
    /\ resp' = Response("import", imp[q].camp, 200, "Recipients added successfully")
    /\ imp' = [imp EXCEPT ![q] = NoImport]
    /\ UNCHANGED <<rcpt, ridSeq, tmpl, msgs, acct, queueVars, w, sends, crashes, gw,
                   sendsSinceStop>>

DeleteCampaign_KeepsRecipients(o, c) ==
    IF ~FindByIDAndOrg(o, c) THEN Reject("delete", c, 404, "Campaign not found")
    ELSE IF ~CanDelete(camp[c].status)
    THEN Reject("delete", c, 400, "Cannot delete running campaign")
    ELSE /\ camp' = [camp EXCEPT ![c] = DeletedCampaign]
         /\ resp' = Response("delete", c, 200, "Campaign deleted successfully")
         /\ sendsSinceStop' = NoStop
         /\ UNCHANGED <<rcpt, ridSeq, imp, tmpl, msgs, acct, queueVars, w, sends, crashes, gw>>

\* DELETE of the campaign's recipients, then of the campaign row
DeleteCampaign(o, c) ==
    IF ~FindByIDAndOrg(o, c) THEN Reject("delete", c, 404, "Campaign not found")
    ELSE IF ~CanDelete(camp[c].status)
    THEN Reject("delete", c, 400, "Cannot delete running campaign")
    ELSE /\ rcpt' = [r \in RecipientIds |->
                        IF rcpt[r].camp = c THEN NoRecipient ELSE rcpt[r]]
         /\ camp' = [camp EXCEPT ![c] = DeletedCampaign]
         /\ resp' = Response("delete", c, 200, "Campaign deleted successfully")
         /\ gw' = [r \in RecipientIds |-> IF rcpt[r].camp = c THEN "none" ELSE gw[r]]
         /\ sendsSinceStop' = NoStop
         /\ UNCHANGED <<ridSeq, imp, tmpl, msgs, acct, queueVars, w, sends, crashes>>

\* ---------------------------------------------------------- consumer group
\* a pending-list slot: the consumer owning the entry, whether it has been idle
\* for ClaimMinIdleTime, and the delivery counter of XREADGROUP and XCLAIM
NotPending == [owner |-> "-", stale |-> FALSE, deliveries |-> 0]

EntryIds == 1..MaxStream

\* XPENDING with Idle = ClaimMinIdleTime: the pending entries idle that long
StalePending == {i \in EntryIds : pel[i].owner # "-" /\ pel[i].stale}

XAck_Toggle(p, i) ==
    [p EXCEPT ![i] = IF @.owner = "-"
                     THEN [owner |-> "w1", stale |-> FALSE, deliveries |-> 1]
                     ELSE NotPending]

\* XACK: removes the entry from the pending list; no effect when it is not there
XAck(p, i) == [p EXCEPT ![i] = NotPending]

\* The idle time of a pending entry passes ClaimMinIdleTime.
Tick(i) ==
    /\ pel[i].owner # "-"
    /\ ~pel[i].stale
    /\ pel' = [pel EXCEPT ![i].stale = TRUE]
    /\ UNCHANGED <<dbVars, stream, lastId, w, sends, crashes, resp, gw, sendsSinceStop>>

\* ------------------------------------------------------------------ worker
\* nothing returned yet by New, Consume or Run
NoReturn == [new |-> "", consume |-> "", run |-> ""]

Down == [pc |-> "down", ctx |-> "live", claims |-> <<>>, msg |-> 0, list |-> <<>>,
         sentCount |-> 0, failedCount |-> 0, outcome |-> "", ret |-> NoReturn]

Booted == [Down EXCEPT !.pc = "read"]

\* where the consume loop goes once the current entry is dealt with
NextEntry(wk) == [Booted EXCEPT !.ctx = wk.ctx,
                                !.claims = wk.claims,
                                !.pc = IF wk.claims = <<>> THEN "read" ELSE "claim"]

CampaignOf(k) == stream[w[k].msg].campaign_id

BusyGroup == "BUSYGROUP Consumer Group name already exists"

XGroupCreateMkStream_Recreates(q) ==
    [err |-> "", lastId |-> 0, pel |-> [i \in EntryIds |-> NotPending]]

\* XGROUP CREATE ... MKSTREAM on the group, which exists since the first
\* consumer was constructed: BUSYGROUP, and the group is left as it is
XGroupCreateMkStream(q) == [err |-> BusyGroup, lastId |-> q.lastId, pel |-> q.pel]

\* the errors of group creation that NewRedisConsumer reports
GroupCreateFails(err) == err # "" /\ err # BusyGroup

\* New -> NewRedisConsumer, then Worker.Run -> Consume: claimPendingMessages
\* lists the stale pending entries
StartWorker(k) ==
    /\ w[k].pc = "down"
    /\ LET g == XGroupCreateMkStream([lastId |-> lastId, pel |-> pel])
       IN /\ ~GroupCreateFails(g.err)
          /\ lastId' = g.lastId
          /\ pel' = g.pel
    /\ w' = [w EXCEPT ![k] = NextEntry([Booted EXCEPT !.claims = AsList(StalePending')])]
    /\ UNCHANGED <<dbVars, stream, sends, crashes, resp, gw, sendsSinceStop>>

\* New -> NewRedisConsumer when group creation fails for another reason (the
\* server cannot be reached): the error is returned and no worker runs
NewRedisConsumerFails(k) ==
    /\ w[k].pc = "down"
    /\ GroupCreateFails("connection refused")
    /\ w' = [w EXCEPT ![k] = [Down EXCEPT !.ret.new = "failed to create consumer group"]]
    /\ UNCHANGED <<dbVars, queueVars, sends, crashes, resp, gw, sendsSinceStop>>

\* The worker process dies; its unacknowledged entry stays pending.
Crash(k) ==
    /\ w[k].pc # "down"
    /\ crashes < MaxCrashes
    /\ crashes' = crashes + 1
    /\ w' = [w EXCEPT ![k] = Down]
    /\ UNCHANGED <<dbVars, queueVars, sends, resp, gw, sendsSinceStop>>

\* The process context is cancelled (SIGINT/SIGTERM) while the worker runs.
Shutdown(k) ==
    /\ w[k].pc # "down"
    /\ w[k].ctx = "live"
    /\ crashes < MaxCrashes
    /\ crashes' = crashes + 1
    /\ w' = [w EXCEPT ![k].ctx = "done"]
    /\ UNCHANGED <<dbVars, queueVars, sends, resp, gw, sendsSinceStop>>

\* ctx.Err() of a context in state c
CtxErr(c) == IF c = "done" THEN "context canceled" ELSE "nil"

RunResult_ReportsCancel(err, ctxErr) ==
    IF err # "nil" THEN "consumer error" ELSE "nil"

\* what Worker.Run returns for the error Consume returned
RunResult(err, ctxErr) ==
    IF err # "nil" /\ ctxErr = "nil" THEN "consumer error" ELSE "nil"

\* Between two entries the consume loop sees the cancelled context and
\* returns its error; Run returns and the process ends.
Exit(k) ==
    /\ w[k].pc \in {"read", "claim"}
    /\ w[k].ctx = "done"
    /\ w' = [w EXCEPT ![k] =
                [Down EXCEPT !.ret.consume = CtxErr(w[k].ctx),
                             !.ret.run = RunResult(CtxErr(w[k].ctx), CtxErr(w[k].ctx))]]
    /\ UNCHANGED <<dbVars, queueVars, sends, crashes, resp, gw, sendsSinceStop>>

ClaimPending_IgnoresIdle(k) ==
    /\ w[k].pc = "claim"
    /\ w[k].ctx = "live"
    /\ LET i == Head(w[k].claims)
           rest == [w[k] EXCEPT !.claims = Tail(@)]
       IN IF pel[i].owner # "-"
          THEN /\ pel' = [pel EXCEPT ![i] = [owner |-> k, stale |-> FALSE,
                                             deliveries |-> @.deliveries + 1]]
               /\ w' = [w EXCEPT ![k] = [rest EXCEPT !.pc = "load", !.msg = i]]
          ELSE /\ pel' = pel
               /\ w' = [w EXCEPT ![k] = NextEntry(rest)]
    /\ UNCHANGED <<dbVars, stream, lastId, sends, crashes, resp, gw, sendsSinceStop>>

\* XCLAIM with MinIdle of the next listed entry: it is claimed only if it is
\* still pending and still idle that long
ClaimPending(k) ==
    /\ w[k].pc = "claim"
    /\ w[k].ctx = "live"
    /\ LET i == Head(w[k].claims)
           rest == [w[k] EXCEPT !.claims = Tail(@)]
       IN IF pel[i].owner # "-" /\ pel[i].stale
          THEN /\ pel' = [pel EXCEPT ![i] = [owner |-> k, stale |-> FALSE,
                                             deliveries |-> @.deliveries + 1]]
               /\ w' = [w EXCEPT ![k] = [rest EXCEPT !.pc = "load", !.msg = i]]
          ELSE /\ pel' = pel
               /\ w' = [w EXCEPT ![k] = NextEntry(rest)]
    /\ UNCHANGED <<dbVars, stream, lastId, sends, crashes, resp, gw, sendsSinceStop>>

\* XREADGROUP fails with an error other than Nil while the context is live:
\* the loop logs it, backs off for a second and reads again
ReadError(k) ==
    /\ w[k].pc = "read"
    /\ w[k].ctx = "live"
    /\ UNCHANGED vars

ReadNew_NewestFirst(k) ==
    /\ w[k].pc = "read"
    /\ w[k].ctx = "live"
    /\ lastId < Len(stream)
    /\ lastId' = Len(stream)
    /\ pel' = [pel EXCEPT ![Len(stream)] = [owner |-> k, stale |-> FALSE,
                                            deliveries |-> 1]]
    /\ w' = [w EXCEPT ![k].pc = "load", ![k].msg = Len(stream)]
    /\ UNCHANGED <<dbVars, stream, sends, crashes, resp, gw, sendsSinceStop>>

\* XREADGROUP ">" Count 1: the next never-delivered entry, now pending for k
ReadNew(k) ==
    /\ w[k].pc = "read"
    /\ w[k].ctx = "live"
    /\ lastId < Len(stream)
    /\ lastId' = lastId + 1
    /\ pel' = [pel EXCEPT ![lastId + 1] = [owner |-> k, stale |-> FALSE,
                                           deliveries |-> 1]]
    /\ w' = [w EXCEPT ![k].pc = "load", ![k].msg = lastId + 1]
    /\ UNCHANGED <<dbVars, stream, sends, crashes, resp, gw, sendsSinceStop>>

\* what the XACK call can do: under a cancelled context the client may give
\* up before the command reaches the server
AckOutcomes(wk) == IF wk.ctx = "done" THEN {TRUE, FALSE} ELSE {TRUE}

\* the handler returned nil: the entry is acknowledged
ReturnOk(k) ==
    /\ \E acked \in AckOutcomes(w[k]) :
           pel' = IF acked THEN XAck(pel, w[k].msg) ELSE pel
    /\ w' = [w EXCEPT ![k] = NextEntry(@)]

ReturnErr_Stops(k) ==
    /\ pel' = pel
    /\ w' = [w EXCEPT ![k] = Down]

ReturnErr_Acks(k) ==
    /\ pel' = XAck(pel, w[k].msg)
    /\ w' = [w EXCEPT ![k] = NextEntry(@)]

\* the handler returned an error: the entry is left pending
ReturnErr(k) ==
    /\ pel' = pel
    /\ w' = [w EXCEPT ![k] = NextEntry(@)]

Processable_Any(s) == TRUE

\* the campaign statuses processCampaign goes on with
Processable(s) == s \in {"queued", "processing"}

\* a field that the entry does not have
NoValue == ""

ProcessMessage_TrustsType(e) ==
    IF e.payload = NoValue THEN "invalid message: missing payload"
    ELSE IF e.payload # "json" THEN "failed to unmarshal job"
    ELSE "nil"

\* processMessage up to the call of the handler: the error it returns for
\* entry e, "nil" when it goes on to call the handler
ProcessMessage(e) ==
    IF e.type = NoValue THEN "invalid message: missing type"
    ELSE IF e.type # JobTypeCampaign THEN "unknown job type"
    ELSE IF e.payload = NoValue THEN "invalid message: missing payload"
    ELSE IF e.payload # "json" THEN "failed to unmarshal job"
    ELSE "nil"

\* processMessage, and processCampaign up to its first status check
LoadCampaign(k) ==
    /\ w[k].pc = "load"
    /\ IF ProcessMessage(stream[w[k].msg]) # "nil" \/ ~RowExists(CampaignOf(k))
       THEN ReturnErr(k)
       ELSE IF ~Processable(camp[CampaignOf(k)].status)
       THEN ReturnOk(k)
       ELSE /\ pel' = pel
            /\ w' = [w EXCEPT ![k].pc = "prep",
                              ![k].sentCount = camp[CampaignOf(k)].sent_count,
                              ![k].failedCount = camp[CampaignOf(k)].failed_count]
    /\ UNCHANGED <<dbVars, stream, lastId, sends, crashes, resp, gw, sendsSinceStop>>

\* UPDATE ... WHERE id = ?: writes nothing when the row is gone
UpdateCampaign(c, row) == IF RowExists(c) THEN [camp EXCEPT ![c] = row] ELSE camp

FailStart_Skips(k, c) ==
    /\ camp' = camp
    /\ ReturnOk(k)

\* a lookup at the start of processCampaign failed: status := failed, and
\* the handler returns the error
FailStart(k, c) ==
    /\ camp' = UpdateCampaign(c, [camp[c] EXCEPT !.status = "failed"])
    /\ ReturnErr(k)

\* account lookup, status := processing, load of the pending recipients
Prepare(k) ==
    /\ w[k].pc = "prep"
    /\ LET c == CampaignOf(k)
       IN IF ~acct
          THEN FailStart(k, c)
          ELSE /\ camp' = UpdateCampaign(c, [camp[c] EXCEPT !.status = "processing"])
               /\ pel' = pel
               /\ w' = [w EXCEPT ![k].list = AsList(RecipientsWith(c, "pending")),
                                 ![k].pc = IF RecipientsWith(c, "pending") = {}
                                           THEN "finish" ELSE "check"]
    /\ UNCHANGED <<rcpt, ridSeq, imp, tmpl, msgs, acct, stream, lastId, sends, crashes, resp, gw, sendsSinceStop>>

\* the account is found and status processing written, then the query
\* loading the pending recipients fails
LoadRecipientsFails(k) ==
    /\ w[k].pc = "prep"
    /\ acct
    /\ FailStart(k, CampaignOf(k))
    /\ UNCHANGED <<rcpt, ridSeq, imp, tmpl, msgs, acct, stream, lastId, sends, crashes, resp, gw, sendsSinceStop>>

\* the statuses at which the send loop stops
Stopped(s) == s \in {"paused", "cancelled"}

CheckStatus_CancelAcks(k) ==
    /\ w[k].pc = "check"
    /\ IF w[k].ctx = "done" \/ Stopped(camp[CampaignOf(k)].status)
       THEN ReturnOk(k)
       ELSE /\ pel' = pel
            /\ w' = [w EXCEPT ![k].pc = "send"]
    /\ UNCHANGED <<dbVars, stream, lastId, sends, crashes, resp, gw, sendsSinceStop>>

\* top of the send loop: the context check, then the re-read of the
\* campaign's status
CheckStatus(k) ==
    /\ w[k].pc = "check"
    /\ IF w[k].ctx = "done"
       THEN ReturnErr(k)
       ELSE IF Stopped(camp[CampaignOf(k)].status)
       THEN ReturnOk(k)
       ELSE /\ pel' = pel
            /\ w' = [w EXCEPT ![k].pc = "send"]
    /\ UNCHANGED <<dbVars, stream, lastId, sends, crashes, resp, gw, sendsSinceStop>>

GatewayOutcomes == {"ok", "err"}

\* sendTemplateMessage: the gateway accepts or rejects the message
Send(k, res) ==
    /\ w[k].pc = "send"
    /\ sends' = [sends EXCEPT ![Head(w[k].list)] = @ + 1]
    /\ w' = [w EXCEPT ![k].pc = "record", ![k].outcome = res]
    /\ gw' = IF res = "ok" THEN [gw EXCEPT ![Head(w[k].list)] = "sent"] ELSE gw
    /\ sendsSinceStop' = IF sendsSinceStop[k] >= 0
                         THEN [sendsSinceStop EXCEPT ![k] = @ + 1] ELSE sendsSinceStop
    /\ UNCHANGED <<dbVars, queueVars, crashes, resp>>

Outcome_NoMessageId(row, res) ==
    IF res = "ok"
    THEN [row EXCEPT !.status = "sent", !.sent_at = Now(@)]
    ELSE [row EXCEPT !.status = "failed", !.error_message = "send failed"]

\* the recipient row after a send
Outcome(row, res) ==
    IF res = "ok"
    THEN [row EXCEPT !.status = "sent", !.message_id = "wamid", !.sent_at = Now(@)]
    ELSE [row EXCEPT !.status = "failed", !.error_message = "send failed"]

CountsAfter_FailureUncounted(row, wk, res) ==
    [row EXCEPT !.sent_count = wk.sentCount + (IF res = "ok" THEN 1 ELSE 0),
                !.failed_count = wk.failedCount]

\* the counters the worker writes after a send: its own running counts
CountsAfter(row, wk, res) ==
    [row EXCEPT !.sent_count = wk.sentCount + (IF res = "ok" THEN 1 ELSE 0),
                !.failed_count = wk.failedCount + (IF res = "ok" THEN 0 ELSE 1)]

\* the outcome is written to the recipient and the counters to the campaign
Record(k) ==
    /\ w[k].pc = "record"
    /\ LET c == CampaignOf(k)
           r == Head(w[k].list)
           res == w[k].outcome
           after == CountsAfter(camp[c], w[k], res)
       IN /\ rcpt' = IF rcpt[r].camp # 0
                     THEN [rcpt EXCEPT ![r] = Outcome(@, res)] ELSE rcpt
          /\ camp' = UpdateCampaign(c, after)
          /\ w' = [w EXCEPT ![k].list = Tail(@),
                            ![k].outcome = "",
                            ![k].sentCount = after.sent_count,
                            ![k].failedCount = after.failed_count,
                            ![k].pc = IF Tail(w[k].list) = <<>> THEN "finish" ELSE "check"]
    /\ UNCHANGED <<ridSeq, imp, tmpl, msgs, acct, queueVars, sends, crashes, resp, gw, sendsSinceStop>>

\* after the loop: status := completed, with the worker's counts
Finish(k) ==
    /\ w[k].pc = "finish"
    /\ LET c == CampaignOf(k)
       IN camp' = UpdateCampaign(c, [camp[c] EXCEPT !.status = "completed",
                                                    !.completed_at = Now(@),
                                                    !.sent_count = w[k].sentCount,
                                                    !.failed_count = w[k].failedCount])
    /\ ReturnOk(k)
    /\ UNCHANGED <<rcpt, ridSeq, imp, tmpl, msgs, acct, stream, lastId, sends, crashes, resp, gw, sendsSinceStop>>

\* ---------------------------------------------------------- status callbacks
\* the statuses the gateway can report next for a message it accepted
GatewayNext(g) ==
    CASE g = "sent" -> {"delivered", "failed"}
      [] g = "delivered" -> {"read"}
      [] OTHER -> {}

IncrementCampaignStat_CountsSent(c, status) ==
    CASE status = "delivered" ->
             UpdateCampaign(c, [camp[c] EXCEPT !.delivered_count = @ + 1])
      [] status = "read" ->
             UpdateCampaign(c, [camp[c] EXCEPT !.read_count = @ + 1])
      [] status = "failed" ->
             UpdateCampaign(c, [camp[c] EXCEPT !.failed_count = @ + 1])
      [] status = "sent" ->
             UpdateCampaign(c, [camp[c] EXCEPT !.sent_count = @ + 1])
      [] OTHER -> camp

\* incrementCampaignStat: column := column + 1 in one UPDATE ... WHERE id = ?;
\* a status other than delivered, read or failed changes nothing
IncrementCampaignStat(c, status) ==
    CASE status = "delivered" ->
             UpdateCampaign(c, [camp[c] EXCEPT !.delivered_count = @ + 1])
      [] status = "read" ->
             UpdateCampaign(c, [camp[c] EXCEPT !.read_count = @ + 1])
      [] status = "failed" ->
             UpdateCampaign(c, [camp[c] EXCEPT !.failed_count = @ + 1])
      [] OTHER -> camp

\* The gateway reports the next status of the message last sent to recipient
\* r, whose row already carries the message id, and the counter of the
\* recipient's campaign is incremented.
Callback(r, status) ==
    /\ rcpt[r].camp # 0
    /\ rcpt[r].status = "sent"
    /\ status \in GatewayNext(gw[r])
    /\ gw' = [gw EXCEPT ![r] = status]
    /\ camp' = IncrementCampaignStat(rcpt[r].camp, status)
    /\ UNCHANGED <<rcpt, ridSeq, imp, tmpl, msgs, acct, queueVars, w, sends, crashes, resp,
                   sendsSinceStop>>

\* the statuses of a message that have no counter column of their own
UncountedStatuses == {"sent", "pending"}

\* The gateway reports a status that incrementCampaignStat does not count
\* for the message last sent to recipient r.
UncountedCallback(r, status) ==
    /\ rcpt[r].camp # 0
    /\ rcpt[r].status = "sent"
    /\ status \in UncountedStatuses
    /\ camp' = IncrementCampaignStat(rcpt[r].camp, status)
    /\ UNCHANGED <<rcpt, ridSeq, imp, tmpl, msgs, acct, queueVars, w, sends, crashes, resp,
                   gw, sendsSinceStop>>

\* the number of rows of campaign c in the messages ledger
LedgerSize(c) ==
    msgs[c].pending + msgs[c].sent + msgs[c].delivered + msgs[c].read + msgs[c].failed

\* A row with the given status appears in the messages ledger for campaign c.
LedgerInsert(c, status) ==
    /\ RowExists(c)
    /\ LedgerSize(c) < MaxLedger
    /\ msgs' = [msgs EXCEPT ![c][status] = @ + 1]
    /\ UNCHANGED <<camp, rcpt, ridSeq, imp, tmpl, acct, queueVars, w, sends, crashes, resp,
                   gw, sendsSinceStop>>

\* the entries another producer can leave on the stream that processMessage
\* rejects: no type, a type other than the campaign job's, no payload, a
\* payload that is not the JSON of a job
ForeignEntries ==
    {[type |-> t, payload |-> "json", campaign_id |-> 1, recipient_id |-> 0] :
        t \in {NoValue, "recipient"}}
    \cup
    {[type |-> JobTypeCampaign, payload |-> p, campaign_id |-> 0, recipient_id |-> 0] :
        p \in {NoValue, "garbage"}}

\* XADD by a producer other than the campaign handlers
AppendForeign(e) ==
    /\ Len(stream) < MaxStream
    /\ stream' = Append(stream, e)
    /\ UNCHANGED <<dbVars, lastId, pel, w, sends, crashes, resp, gw, sendsSinceStop>>

\* --------------------------------------------------- template parameters
\* the keys a recipient's template_params can carry
ParamKeys == {"1", "2", "9", "10", "0", "11", "name"}

ParamValues == {"a", "b"}

\* template_params: a JSON object from keys to texts, possibly empty
TemplateParams == UNION {[K -> ParamValues] : K \in SUBSET ParamKeys}

\* no template_params, nothing sent
NoTemplateCall == [params |-> <<>>, components |-> <<>>, sent |-> FALSE]

DecimalDigits == <<"0", "1", "2", "3", "4", "5", "6", "7", "8", "9">>

\* fmt.Sprintf("%d", i) of a number i >= 0
RECURSIVE Itoa(_)
Itoa(i) == IF i < 10 THEN DecimalDigits[i + 1]
           ELSE Itoa(i \div 10) \o DecimalDigits[(i % 10) + 1]

\* the last ordinal the loop looks up
LastOrdinal == 10

\* the loop over the ordinals from i on: one text parameter per key present
RECURSIVE BodyParamsFrom(_, _)
BodyParamsFrom(tp, i) ==
    IF i > LastOrdinal THEN <<>>
    ELSE (IF Itoa(i) \in DOMAIN tp
          THEN <<[type |-> "text", text |-> tp[Itoa(i)]]>> ELSE <<>>)
         \o BodyParamsFrom(tp, i + 1)

BodyParams_FromZero(tp) == BodyParamsFrom(tp, 0)

BodyParams(tp) == BodyParamsFrom(tp, 1)

\* the components passed to the gateway for template_params tp
Components(tp) ==
    IF DOMAIN tp = {} THEN <<>>
    ELSE IF BodyParams(tp) = <<>> THEN <<>>
    ELSE <<[type |-> "body", parameters |-> BodyParams(tp)]>>

\* sendTemplateMessage: the components are built and passed to the gateway
SendTemplateMessage ==
    /\ ~tmpl.sent
    /\ tmpl' = [tmpl EXCEPT !.components = Components(tmpl.params), !.sent = TRUE]
    /\ UNCHANGED <<camp, rcpt, ridSeq, imp, msgs, acct, queueVars, w, sends, crashes,
                   resp, gw, sendsSinceStop>>

\* The WhatsApp account row is removed.
DeleteAccount ==
    /\ acct
    /\ acct' = FALSE
    /\ UNCHANGED <<camp, rcpt, ridSeq, imp, tmpl, msgs, queueVars, w, sends, crashes, resp, gw, sendsSinceStop>>

\* ----------------------------------------------------------- specification
InitRows ==
    /\ camp = [c \in CampaignIds |-> NoCampaign]
    /\ rcpt = [r \in RecipientIds |-> NoRecipient]
    /\ ridSeq = 0
    /\ imp = [q \in ImportRequests |-> NoImport]
    /\ msgs = [c \in CampaignIds |-> NoMessages]
    /\ acct = TRUE
    /\ stream = <<>>
    /\ lastId = 0
    /\ pel = [i \in EntryIds |-> NotPending]
    /\ w = [k \in WorkerIds |-> Down]
    /\ sends = [r \in RecipientIds |-> 0]
    /\ crashes = 0
    /\ resp = Response("none", 0, 0, "")
    /\ gw = [r \in RecipientIds |-> "none"]
    /\ sendsSinceStop = NoStop

Init ==
    /\ InitRows
    /\ tmpl = NoTemplateCall

\* a recipient row with any of the template_params, about to be sent to
InitParams ==
    /\ InitRows
    /\ \E tp \in TemplateParams : tmpl = [NoTemplateCall EXCEPT !.params = tp]

Api(o, c, mayFail) ==
    \/ CreateCampaign(o, c)
    \/ ScheduleCampaign(c)
    \/ StartCampaign(o, c, mayFail)
    \/ PauseCampaign(o, c)
    \/ CancelCampaign(o, c)
    \/ RetryFailed(o, c, mayFail)
    \/ \E n \in 1..MaxRecipients : ImportRecipients(o, c, n)
    \/ DeleteCampaign(o, c)

WorkerStep(k) ==
    \/ StartWorker(k)
    \/ ReadNew(k)
    \/ LoadCampaign(k)
    \/ Prepare(k)
    \/ CheckStatus(k)
    \/ \E res \in GatewayOutcomes : Send(k, res)
    \/ Record(k)
    \/ Finish(k)

\* One organization, one campaign, one worker that never dies; every API
\* action, with a queue that may fail, and the account row may disappear.
Next ==
    \/ Api(1, 1, TRUE)
    \/ WorkerStep("w1")
    \/ DeleteAccount

Spec == Init /\ [][Next]_vars

\* Two workers, of which w1 may die and be started again, entries going
\* stale, and a campaign that is imported into and started over a healthy
\* queue.
NextQueue ==
    \/ CreateCampaign(1, 1)
    \/ \E n \in 1..MaxRecipients : ImportRecipients(1, 1, n)
    \/ StartCampaign(1, 1, FALSE)
    \/ \E k \in WorkerIds : WorkerStep(k) \/ ClaimPending(k)
    \/ Crash("w1")
    \/ \E i \in EntryIds : Tick(i)

SpecQueue == Init /\ [][NextQueue]_vars

\* The same system under fair scheduling: every worker that is running keeps
\* taking the steps of its consume loop, worker w2 is started and never dies,
\* time keeps passing for the pending entries, the queue is healthy and the
\* gateway always answers.  Nothing obliges a dead worker to be started again.
Alive(k) == w[k].pc # "down"

Fairness ==
    /\ \A k \in WorkerIds : WF_vars(Alive(k) /\ (WorkerStep(k) \/ ClaimPending(k)))
    /\ WF_vars(StartWorker("w2"))
    /\ \A i \in EntryIds : WF_vars(Tick(i))

SpecLive == SpecQueue /\ Fairness

\* One campaign that is imported into and started over a healthy queue, one
\* worker that never dies, and no other operator action.
NextRun ==
    \/ CreateCampaign(1, 1)
    \/ \E n \in 1..MaxRecipients : ImportRecipients(1, 1, n)
    \/ StartCampaign(1, 1, FALSE)
    \/ WorkerStep("w1")

SpecRun == Init /\ [][NextRun]_vars

\* One worker that is shut down and started again, entries going stale and
\* being reclaimed at the next start, a healthy queue, and an account row
\* that may disappear so that handlers fail.
NextAck ==
    \/ CreateCampaign(1, 1)
    \/ \E n \in 1..MaxRecipients : ImportRecipients(1, 1, n)
    \/ StartCampaign(1, 1, FALSE)
    \/ WorkerStep("w1")
    \/ ClaimPending("w1")
    \/ NewRedisConsumerFails("w1")
    \/ ReadError("w1")
    \/ Shutdown("w1")
    \/ Exit("w1")
    \/ \E i \in EntryIds : Tick(i)
    \/ DeleteAccount

SpecAck == Init /\ [][NextAck]_vars

\* The same system with a database that may fail the worker's load of the
\* pending recipients.
NextFail ==
    \/ NextAck
    \/ LoadRecipientsFails("w1")

SpecFail == Init /\ [][NextFail]_vars

\* One worker, one campaign started over a healthy queue, and a stream that
\* also receives entries the consumer cannot decode.
NextForeign ==
    \/ CreateCampaign(1, 1)
    \/ ImportRecipients(1, 1, 1)
    \/ StartCampaign(1, 1, FALSE)
    \/ \E e \in ForeignEntries : AppendForeign(e)
    \/ WorkerStep("w1")

SpecForeign == Init /\ [][NextForeign]_vars

\* One worker that never dies, a campaign of one recipient that is started
\* and retried over a healthy queue, and a messages ledger that receives
\* rows of every status.
NextLedger ==
    \/ CreateCampaign(1, 1)
    \/ ImportRecipients(1, 1, 1)
    \/ StartCampaign(1, 1, FALSE)
    \/ RetryFailed(1, 1, FALSE)
    \/ WorkerStep("w1")
    \/ \E st \in {"sent", "delivered", "read", "failed"} : LedgerInsert(1, st)

SpecLedger == Init /\ [][NextLedger]_vars

\* Two import requests that may interleave, on a draft campaign that is then
\* started and handled by one worker.
NextImport ==
    \/ CreateCampaign(1, 1)
    \/ \E q \in ImportRequests :
          \/ ImportCreate(q, 1, 1, 1)
          \/ ImportCount(q)
          \/ ImportUpdate(q)
    \/ StartCampaign(1, 1, FALSE)
    \/ WorkerStep("w1")

SpecImport == Init /\ [][NextImport]_vars

\* sendTemplateMessage applied to a recipient with any template_params.
NextParams == SendTemplateMessage

SpecParams == InitParams /\ [][NextParams]_vars

\* The same system with a worker that, while its process runs, keeps taking
\* the steps of its consume loop, the return on a cancelled context included.
SpecAckLive ==
    SpecAck /\ WF_vars(Alive("w1") /\ (WorkerStep("w1") \/ ClaimPending("w1") \/ Exit("w1")))

\* Two workers that never die, a campaign that is imported into one recipient
\* at a time, started, paused and started again over a healthy queue, and entries going stale while they are handled,
\* so that one entry can be held by both workers.
NextPair ==
    \/ CreateCampaign(1, 1)
    \/ ImportRecipients(1, 1, 1)
    \/ StartCampaign(1, 1, FALSE)
    \/ PauseCampaign(1, 1)
    \/ \E k \in WorkerIds : WorkerStep(k) \/ ClaimPending(k)
    \/ \E i \in EntryIds : Tick(i)

SpecPair == Init /\ [][NextPair]_vars

\* One worker that never dies, a healthy queue, a campaign that is imported
\* into, started, paused, resumed and retried, and the gateway's delivery
\* status callbacks.
NextStats ==
    \/ CreateCampaign(1, 1)
    \/ \E n \in 1..MaxRecipients : ImportRecipients(1, 1, n)
    \/ StartCampaign(1, 1, FALSE)
    \/ PauseCampaign(1, 1)
    \/ RetryFailed(1, 1, FALSE)
    \/ WorkerStep("w1")
    \/ \E r \in RecipientIds, st \in {"delivered", "read", "failed"} : Callback(r, st)
    \/ \E r \in RecipientIds, st \in UncountedStatuses : UncountedCallback(r, st)

SpecStats == Init /\ [][NextStats]_vars

\* Two campaigns of one organization that are imported into, started over a
\* healthy queue, processed by one worker, cancelled and deleted.
NextDelete ==
    \/ \E c \in CampaignIds :
          \/ CreateCampaign(1, c)
          \/ ImportRecipients(1, c, 1)
          \/ StartCampaign(1, c, FALSE)
          \/ CancelCampaign(1, c)
          \/ DeleteCampaign(1, c)
    \/ WorkerStep("w1")

SpecDelete == Init /\ [][NextDelete]_vars

\* Two organizations with one campaign each; every campaign operation is
\* called on the campaign of organization 2 by its owner and by organization
\* 1, over a healthy queue, and one worker processes it.
NextOrg ==
    \/ CreateCampaign(1, 1)
    \/ CreateCampaign(2, 2)
    \/ \E o \in OrgIds :
          \/ ListCampaigns(o)
          \/ GetCampaign(o, 2)
          \/ \E name \in Names : UpdateCampaignRequest(o, 2, name)
          \/ GetCampaignRecipients(o, 2)
          \/ ImportRecipients(o, 2, 1)
          \/ StartCampaign(o, 2, FALSE)
          \/ PauseCampaign(o, 2)
          \/ CancelCampaign(o, 2)
          \/ RetryFailed(o, 2, FALSE)
          \/ DeleteCampaign(o, 2)
    \/ WorkerStep("w1")

SpecOrg == Init /\ [][NextOrg]_vars

\* ------------------------------------------------------------------ claims
Pending(c) == RecipientsWith(c, "pending")

\* no entry undelivered or pending in the group, and no worker handling one
Quiescent ==
    /\ lastId = Len(stream)
    /\ \A i \in EntryIds : pel[i].owner = "-"
    /\ \A k \in WorkerIds : w[k].pc \in {"down", "read"}

\* the transition table of the state machine, as the claim gives it
TableAllows(s, a) ==
    CASE a = "start" -> s \in {"draft", "scheduled", "paused"}
      [] a = "pause" -> s \in {"processing", "queued"}
      [] a = "cancel" -> s \notin {"completed", "cancelled"}
      [] a = "retry" -> s \in {"completed", "paused", "failed"}
      [] a = "import" -> s = "draft"
      [] a = "delete" -> s \notin {"processing", "queued"}

\* the handler of API action a runs for campaign c in this step
Invokes(a, o, c) ==
    CASE a = "start" -> StartCampaign(o, c, TRUE)
      [] a = "pause" -> PauseCampaign(o, c)
      [] a = "cancel" -> CancelCampaign(o, c)
      [] a = "retry" -> RetryFailed(o, c, TRUE)
      [] a = "import" -> \E n \in 1..MaxRecipients : ImportRecipients(o, c, n)
      [] a = "delete" -> DeleteCampaign(o, c)

ApiActions == {"start", "pause", "cancel", "retry", "import", "delete"}

\* C1: state machine closure.  Whenever an API action is invoked on a campaign
\* whose status the transition table does not allow it from, the handler
\* answers with a client error and the campaign's status stays as it was.
C1_Closure ==
    [][\A a \in ApiActions, o \in OrgIds, c \in CampaignIds :
         (FindByIDAndOrg(o, c) /\ ~TableAllows(camp[c].status, a) /\ Invokes(a, o, c))
            => /\ resp' = Response(a, c, 400, resp'.msg)
               /\ camp'[c].status = camp[c].status]_vars

\* a start was just rejected on a completed campaign
C1_Witness ==
    /\ camp[1].status = "completed"
    /\ resp.op = "start" /\ resp.code = 400
    /\ resp.msg = "Campaign cannot be started in current state"

\* C2: counter consistency.  In every quiescent state, every campaign's
\* sent_count is the number of its recipients with status sent and its
\* failed_count the number with status failed.
C2_CounterConsistency ==
    Quiescent =>
        \A c \in CampaignIds : RowExists(c) =>
            /\ camp[c].sent_count = Cardinality(RecipientsWith(c, "sent"))
            /\ camp[c].failed_count = Cardinality(RecipientsWith(c, "failed"))

\* C4: completion means ledger exhaustion.  Whenever a campaign is completed
\* and no job is in flight, none of its recipients is pending.
C4_CompletedMeansExhausted ==
    \A c \in CampaignIds :
        (camp[c].status = "completed" /\ Quiescent) => Pending(c) = {}

\* C7: a start whose enqueue fails answers with an error and leaves the
\* campaign draft with its pending recipients, so that start is accepted
\* again; and a start on a draft campaign with pending recipients either
\* fails in the enqueue or leaves the campaign processing.
C7_StartFailureReverts ==
    [][\A o \in OrgIds, c \in CampaignIds :
         StartCampaign(o, c, TRUE) =>
            /\ resp'.code = 500 =>
                  /\ camp'[c].status = "draft"
                  /\ CanStart(camp'[c].status)
                  /\ Pending(c)' # {}
                  /\ rcpt' = rcpt
            /\ (FindByIDAndOrg(o, c) /\ camp[c].status = "draft"
                   /\ Pending(c) # {} /\ resp'.code # 500) =>
                  /\ resp'.code = 200
                  /\ camp'[c].status = "processing"]_vars

\* a start that failed in the enqueue was followed by one that succeeded
C7_Witness ==
    /\ resp.op = "start" /\ resp.code = 200
    /\ camp[1].status = "processing"
    /\ camp[1].started_at = 2
    /\ Len(stream) = Cardinality(Pending(1))
    /\ \A k \in WorkerIds : w[k].pc = "down"

\* C8: a retry-failed whose enqueue fails rolls the campaign's status change
\* back.
C8_RetryFailureRollsBack ==
    [][\A o \in OrgIds, c \in CampaignIds :
         (RetryFailed(o, c, TRUE) /\ resp'.code = 500)
            => camp'[c].status = camp[c].status]_vars

\* C10: pause is not destructive.  A pause changes nothing but the status of
\* the campaign it is invoked on: every recipient row, every counter and
\* timestamp, the ledger and the queue are as before.
C10_PauseOnlyStatus ==
    [][\A o \in OrgIds, c \in CampaignIds :
         PauseCampaign(o, c) =>
            /\ rcpt' = rcpt
            /\ camp' \in {camp, [camp EXCEPT ![c].status = "paused"]}
            /\ UNCHANGED <<ridSeq, imp, tmpl, msgs, stream, lastId, pel>>]_vars

\* a campaign was just paused with one recipient sent and one still pending
C10_Witness ==
    /\ resp.op = "pause" /\ resp.code = 200
    /\ camp[1].status = "paused"
    /\ RecipientsWith(1, "sent") # {}
    /\ Pending(1) # {}

\* C5: job redelivery has no double effect.  While a recipient is pending the
\* gateway send is performed at most once for it.
C5_AtMostOneSend ==
    \A r \in RecipientIds : rcpt[r].status = "pending" => sends[r] <= 1

Counted(c) == camp[c].sent_count + camp[c].failed_count

\* C6: no lost counter updates.  Each outcome a worker records moves the
\* campaign's sent_count + failed_count up by exactly one, as an atomic
\* increment at the store does.
C6_AtomicIncrements ==
    [][\A k \in WorkerIds :
         (Record(k) /\ RowExists(CampaignOf(k)))
            => Counted(CampaignOf(k))' = Counted(CampaignOf(k)) + 1]_vars

\* some live worker is running the handler on entry i
Handling(i) == \E k \in WorkerIds : w[k].pc # "down" /\ w[k].msg = i

\* entry i was taken by a worker and is neither acknowledged nor being handled
Unhandled(i) == pel[i].owner # "-" /\ ~Handling(i)

\* C3: at-least-once delivery.  An entry taken by a worker that died before
\* acknowledging it is, while another worker keeps running its consume loop,
\* eventually reclaimed and handled again.
C3_EventuallyReclaimed ==
    \A i \in EntryIds : Unhandled(i) ~> (Handling(i) \/ pel[i].owner = "-")

\* C9: liveness of a campaign.  A started campaign that is nowhere paused or
\* cancelled eventually is completed with no recipient left pending.
C9_EventuallyCompleted ==
    \A c \in CampaignIds :
        (camp[c].status = "processing")
            ~> (camp[c].status = "completed" /\ Pending(c) = {})

\* C11: retry resets only failures.  A successful retry-failed turns exactly
\* the failed recipients of the campaign to pending with an empty
\* error_message, keeps their provider message id, and leaves every other
\* recipient as it was.
C11_RetryResetsOnlyFailures ==
    [][\A o \in OrgIds, c \in CampaignIds :
         (RetryFailed(o, c, TRUE) /\ resp'.code = 200) =>
            \A r \in RecipientIds :
               rcpt'[r] = IF rcpt[r].camp = c /\ rcpt[r].status = "failed"
                          THEN [rcpt[r] EXCEPT !.status = "pending", !.error_message = ""]
                          ELSE rcpt[r]]_vars

\* a retry-failed just succeeded on a campaign with a sent recipient and a
\* recipient it put back to pending
C11_Witness ==
    /\ resp.op = "retry" /\ resp.code = 200
    /\ RecipientsWith(1, "sent") # {}
    /\ \E r \in Pending(1) : rcpt[r].error_message = "" /\ sends[r] = 0

\* the campaign was started and every job of it is consumed and acknowledged
Drained(c) ==
    /\ Quiescent
    /\ camp[c].started_at # 0
    /\ stream # <<>>

TableTarget(s, a) ==
    CASE a = "start" -> "processing"
      [] a = "pause" -> "paused"
      [] a = "cancel" -> "cancelled"
      [] a = "retry" -> "processing"
      [] a = "import" -> "draft"

\* the table's guard on the recipients: start needs a pending recipient,
\* retry-failed a failed one
TableGuard(c, a) ==
    CASE a = "start" -> Pending(c) # {}
      [] a = "retry" -> RecipientsWith(c, "failed") # {}
      [] OTHER -> TRUE

C14_AtMostOneMoreSend ==
    \A k \in WorkerIds : sendsSinceStop[k] <= 1

\* the handler of worker k returns nil in the step it is about to take
HandlerSucceeds(k) ==
    \/ /\ w[k].pc = "load"
       /\ ProcessMessage(stream[w[k].msg]) = "nil"
       /\ RowExists(CampaignOf(k))
       /\ ~Processable(camp[CampaignOf(k)].status)
    \/ /\ w[k].pc = "check"
       /\ w[k].ctx = "live"
       /\ Stopped(camp[CampaignOf(k)].status)
    \/ w[k].pc = "finish"

\* the handler of worker k returns an error in the step it is about to take
HandlerFails(k) ==
    \/ /\ w[k].pc = "load"
       /\ ProcessMessage(stream[w[k].msg]) # "nil" \/ ~RowExists(CampaignOf(k))
    \/ w[k].pc = "prep" /\ ~acct
    \/ w[k].pc = "check" /\ w[k].ctx = "done"

\* C15: an entry leaves the pending list only in a step in which the handler
\* of a worker holding it returns success; a step in which the handler returns
\* an error leaves the entry pending, whether the entry was read as new or
\* reclaimed.
C15_AckOnlyAfterSuccess ==
    [][/\ \A i \in EntryIds :
            (pel[i].owner # "-" /\ pel'[i].owner = "-")
            => \E k \in WorkerIds : w[k].msg = i /\ HandlerSucceeds(k)
                                     /\ w'[k].msg # i
       /\ \A k \in WorkerIds :
            (HandlerFails(k) /\ w'[k] # w[k])
            => /\ pel[w[k].msg].owner # "-"
               /\ pel'[w[k].msg] = pel[w[k].msg]]_vars

\* a reclaimed entry (second delivery) whose handler failed on the missing
\* account is still pending while its worker is back at the read
C15_Witness ==
    /\ w["w1"].pc = "read"
    /\ \E i \in EntryIds : pel[i].owner = "w1" /\ pel[i].deliveries = 2
    /\ ~acct
    /\ camp[1].status = "failed"

\* C16: a worker whose context is cancelled acknowledges nothing unless its
\* handler returns success, and the step in which its consume loop exits
\* leaves the pending list as it is: the entry it was handling stays pending.
C16_ShutdownKeepsPending ==
    [][\A k \in WorkerIds :
          w[k].ctx = "done"
          => /\ (w[k].msg # 0 /\ ~HandlerSucceeds(k) /\ w'[k] # w[k])
                => /\ pel[w[k].msg].owner # "-"
                   /\ pel'[w[k].msg] = pel[w[k].msg]
             /\ (w'[k].pc = "down" => pel' = pel)]_vars

\* the worker is down after a shutdown in the middle of a campaign: some
\* recipient is sent, some still pending, and the entry is pending
C16_Witness ==
    /\ w["w1"].pc = "down"
    /\ crashes = 1
    /\ camp[1].status = "processing"
    /\ \E r \in RecipientsOf(1) : rcpt[r].status = "sent"
    /\ Pending(1) # {}
    /\ \E i \in EntryIds : pel[i].owner = "w1" /\ stream[i].campaign_id = 1

C18_CountsWithinTotal ==
    Quiescent =>
        \A c \in CampaignIds :
            RowExists(c) =>
                camp[c].sent_count + camp[c].failed_count <= camp[c].total_recipients

\* C19: in every state, for every campaign, the delivered counter does not
\* exceed the sent counter and the read counter does not exceed the delivered
\* counter.
C19_DeliveredWithinSent ==
    \A c \in CampaignIds :
        RowExists(c) =>
            /\ camp[c].delivered_count <= camp[c].sent_count
            /\ camp[c].read_count <= camp[c].delivered_count

Appended(c, r) ==
    Cardinality({i \in (Len(stream) + 1)..Len(stream') :
                    stream'[i].campaign_id = c /\ stream'[i].recipient_id = r})

\* C21: one job per recipient.  A start that answers success appends exactly
\* one entry for each recipient of the campaign that is pending and none for
\* any other recipient; a retry-failed that answers success appends exactly
\* one entry for each recipient that was failed and none for any other; both
\* leave the earlier entries of the stream as they were.
C21_OneJobPerRecipient ==
    [][\A o \in OrgIds, c \in CampaignIds :
          /\ (StartCampaign(o, c, TRUE) /\ resp' = Response("start", c, 200, resp'.msg))
                => /\ SubSeq(stream', 1, Len(stream)) = stream
                   /\ Len(stream') = Len(stream) + Cardinality(Pending(c))
                   /\ \A r \in RecipientIds :
                         Appended(c, r) = IF r \in Pending(c) THEN 1 ELSE 0
          /\ (RetryFailed(o, c, TRUE) /\ resp' = Response("retry", c, 200, resp'.msg))
                => /\ SubSeq(stream', 1, Len(stream)) = stream
                   /\ Len(stream') = Len(stream)
                                      + Cardinality(RecipientsWith(c, "failed"))
                   /\ \A r \in RecipientIds :
                         Appended(c, r) = IF r \in RecipientsWith(c, "failed")
                                          THEN 1 ELSE 0]_vars

\* a paused campaign with one recipient sent and one still pending was just
\* resumed: the stream holds the two entries of the first start and one more,
\* for the pending recipient
C21_Witness ==
    /\ resp = Response("start", 1, 200, resp.msg)
    /\ rcpt[1].status = "sent"
    /\ rcpt[2].status = "pending"
    /\ Len(stream) = 3
    /\ stream[3].recipient_id = 2

\* C22: no automatic retry.  No worker starts a send to a recipient whose
\* status is failed; the status becomes pending again only by retry-failed.
C22_NoSendToFailed ==
    [][\A k \in WorkerIds :
          (w[k].pc = "send" /\ w'[k].pc = "record")
             => rcpt[Head(w[k].list)].status # "failed"]_vars

\* the campaign operations that address one campaign
OrgOps == ApiActions \cup {"get", "update", "recipients"}

\* the handler of operation a runs for campaign c under organization o
InvokesOp(a, o, c) ==
    CASE a = "get" -> GetCampaign(o, c)
      [] a = "update" -> \E name \in Names : UpdateCampaignRequest(o, c, name)
      [] a = "recipients" -> GetCampaignRecipients(o, c)
      [] OTHER -> Invokes(a, o, c)

\* C23: organization isolation.  Every campaign operation called under an
\* organization other than the campaign's own answers not-found and changes
\* no campaign, recipient or queue state; and a listing returns exactly the
\* campaigns of the caller's organization.
C23_OrgIsolation ==
    [][/\ \A a \in OrgOps, o \in OrgIds, c \in CampaignIds :
            (RowExists(c) /\ camp[c].org # o /\ InvokesOp(a, o, c))
               => /\ resp' = Response(a, c, 404, "Campaign not found")
                  /\ UNCHANGED <<camp, rcpt, ridSeq, imp, tmpl, msgs, stream, lastId, pel>>
       /\ \A o \in OrgIds :
            ListCampaigns(o)
               => /\ resp'.msg = {c \in CampaignIds : RowExists(c) /\ camp[c].org = o}
                  /\ \A c \in resp'.msg : camp[c].org = o]_vars

\* campaign 2 of organization 2, paused with a failed recipient, so that
\* retry-failed would be accepted from its owner, was just asked to retry its
\* failures by another organization and answered not-found
C23_Witness ==
    /\ resp.op = "retry" /\ resp.camp = 2 /\ resp.code = 404
    /\ camp[2].status = "paused" /\ camp[2].org = 2
    /\ RecipientsWith(2, "failed") # {}
    /\ RowExists(1)

\* a sent recipient carries a message id and a sent_at stamp, a failed one an
\* error message
OutcomeRecorded ==
    \A r \in RecipientIds :
        /\ rcpt[r].status = "sent" => rcpt[r].message_id # "" /\ rcpt[r].sent_at # 0
        /\ rcpt[r].status = "failed" => rcpt[r].error_message # ""

\* C24: recipient outcome invariant.  In every state a sent recipient has a
\* non-empty message id and a sent_at stamp and a failed recipient a non-empty
\* error message; and the step that records a send attempt leaves its
\* recipient sent if the gateway accepted the message and failed if it did
\* not, and changes no other recipient.
C24_RecipientOutcome ==
    [][/\ OutcomeRecorded'
       /\ \A k \in WorkerIds :
            (w[k].pc = "record" /\ w'[k].pc # "record" /\ w'[k].pc # "down"
                                /\ rcpt[Head(w[k].list)].camp # 0)
               => /\ rcpt'[Head(w[k].list)].status
                        = (IF w[k].outcome = "ok" THEN "sent" ELSE "failed")
                  /\ \A r \in RecipientIds \ {Head(w[k].list)} : rcpt'[r] = rcpt[r]]_vars

\* one recipient is sent and the other, sent to once since a third entry was
\* enqueued for the campaign, has failed
C24_Witness ==
    /\ rcpt[1].status = "sent" /\ rcpt[1].message_id # "" /\ rcpt[1].sent_at # 0
    /\ rcpt[2].status = "failed" /\ rcpt[2].error_message # ""
    /\ sends[2] = 1
    /\ Len(stream) = 3

C26_LoopSurvivesErrors ==
    /\ [][\A k \in WorkerIds :
            /\ (HandlerFails(k) /\ w'[k].pc # w[k].pc)
                  => w'[k].pc \in {"read", "claim"} /\ w'[k].ctx = w[k].ctx
            /\ ReadError(k) => w'[k] = w[k]]_vars
    /\ \A i \in EntryIds :
          (Alive("w1") /\ w["w1"].ctx = "live" /\ i <= Len(stream) /\ lastId < i)
              ~> (lastId >= i \/ w["w1"].ctx = "done")

\* the handler failed for the first entry, which is still pending, and the
\* worker, never shut down, went on to read and acknowledge the second
C26_Witness ==
    /\ crashes = 0
    /\ lastId = 2
    /\ pel[1].owner = "w1" /\ pel[1].deliveries = 1
    /\ pel[2].owner = "-"
    /\ w["w1"].pc = "read"

\* C27: cancelling the context terminates the consume loop.  A worker whose
\* context is cancelled eventually stops; when its loop returns, Consume
\* returns the context's cancellation error and Run returns nil; a worker
\* stops in no other way; and Run reports every error of Consume under a live
\* context as an error.
C27_CancelStopsLoop ==
    /\ (w["w1"].ctx = "done") ~> (w["w1"].pc = "down")
    /\ [][\A k \in WorkerIds :
            (w[k].pc # "down" /\ w'[k].pc = "down")
               => /\ w[k].ctx = "done"
                  /\ w'[k].ret.consume = "context canceled"
                  /\ w'[k].ret.run = "nil"
                  /\ RunResult("context canceled", "context canceled") = "nil"
                  /\ RunResult("read failed", "nil") = "consumer error"
                  /\ RunResult("nil", "nil") = "nil"]_vars

\* the worker stopped on a cancelled context in the middle of a campaign
C27_Witness ==
    /\ w["w1"].pc = "down"
    /\ w["w1"].ret.consume = "context canceled" /\ w["w1"].ret.run = "nil"
    /\ camp[1].status = "processing"
    /\ Pending(1) # {}

\* C28: exclusive ownership of a job.  An entry has one owner at a time; a
\* consumer receives an entry only in a step that makes it the owner, and
\* that step either delivers a never-delivered entry that nobody owns or
\* claims an entry that has been idle for the stale threshold; an entry that
\* has an owner changes owner only when it has been idle that long.
C28_ExclusiveOwnership ==
    [][\A i \in EntryIds :
          /\ \A k \in WorkerIds :
                (w'[k].msg = i /\ w[k].msg # i)
                   => /\ pel'[i].owner = k
                      /\ \/ pel[i].owner = "-" /\ lastId < i /\ lastId' = i
                         \/ pel[i].owner # "-" /\ pel[i].stale
                      /\ \A j \in WorkerIds \ {k} : w'[j] = w[j]
          /\ (pel[i].owner # "-" /\ pel'[i].owner # "-" /\ pel'[i].owner # pel[i].owner)
                => pel[i].stale /\ w'[pel'[i].owner].msg = i
          /\ (pel[i].owner = "-" /\ pel'[i].owner # "-") => lastId < i]_vars

\* worker w2 owns the first entry after claiming it, idle for the threshold,
\* from worker w1, which is still handling it
C28_Witness ==
    /\ pel[1].owner = "w2" /\ pel[1].deliveries = 2
    /\ w["w2"].msg = 1
    /\ w["w1"].msg = 1

\* C29: the worker never moves a campaign out of paused or cancelled.  A
\* step of a worker leaves the status of a campaign that is paused or
\* cancelled as it is.
C29_WorkerKeepsStopped ==
    [][\A c \in CampaignIds :
          (Stopped(camp[c].status) /\ w' # w) => camp'[c].status = camp[c].status]_vars

\* C30: guards on empty work.  A start of a campaign that has no pending
\* recipient, and a retry-failed of a campaign that has no failed recipient,
\* is answered with a client error and changes no campaign, recipient,
\* message counter or queue entry.
C30_EmptyWorkRejected ==
    [][\A o \in OrgIds, c \in CampaignIds, mayFail \in BOOLEAN :
          /\ (StartCampaign(o, c, mayFail) /\ RecipientsWith(c, "pending") = {})
                => /\ resp'.op = "start" /\ resp'.code \in 400..499
                   /\ UNCHANGED <<dbVars, queueVars>>
          /\ (RetryFailed(o, c, mayFail) /\ RecipientsWith(c, "failed") = {})
                => /\ resp'.op = "retry" /\ resp'.code \in 400..499
                   /\ UNCHANGED <<dbVars, queueVars>>]_vars

\* a paused campaign whose recipients have all been sent to was started and
\* the start was refused for want of pending recipients
C30_Witness ==
    /\ resp = Response("start", 1, 400, "Campaign has no pending recipients")
    /\ camp[1].status = "paused"
    /\ RecipientsOf(1) # {}
    /\ Pending(1) = {}

\* C31: every iteration of the consume loop begins with the reclaim phase.
\* While worker w2 runs its loop, an entry that has been pending for the stale
\* threshold is eventually reassigned or acknowledged, whenever it went
\* stale, not only when it was stale as a consumer started.
C31_ReclaimEveryIteration ==
    \A i \in EntryIds :
        (i \in StalePending /\ Alive("w2")) ~> (i \notin StalePending)

\* C32: a single consumer handles new entries in append order and one at a
\* time.  A read delivers exactly one entry, the oldest never delivered, to
\* a worker that is handling no entry; and the worker gives up the entry it
\* handles only in the step in which its handler returns, which acknowledges
\* the entry if the handler succeeded under a live context.
C32_InOrderOneAtATime ==
    [][\A k \in WorkerIds :
          /\ lastId' # lastId
                => /\ lastId' = lastId + 1
                   /\ (w[k].pc # "down" =>
                         /\ w[k].msg = 0 /\ w[k].pc = "read"
                         /\ w'[k].msg = lastId' /\ pel'[lastId'].owner = k)
                   /\ \A j \in EntryIds : j # lastId' => pel'[j] = pel[j]
          /\ (w[k].msg # 0 /\ w'[k].msg # w[k].msg /\ w'[k].pc # "down")
                => /\ HandlerSucceeds(k) \/ HandlerFails(k)
                   /\ (HandlerSucceeds(k) /\ w[k].ctx = "live")
                         => pel'[w[k].msg].owner = "-"]_vars

\* the worker, never shut down, acknowledged the first entry and is handling
\* the second
C32_Witness ==
    /\ crashes = 0
    /\ lastId = 2
    /\ pel[1] = NotPending
    /\ w["w1"].msg = 2 /\ pel[2].owner = "w1"

\* C33: a lookup that fails as the worker begins processing fails the
\* campaign.  In the step in which the account is not found, or the pending
\* recipients cannot be loaded, the campaign's status becomes failed, no
\* gateway call is made, no recipient changes, and the handler returns an
\* error: the worker lets go of the entry and the entry stays pending.
C33_LookupFailureFailsCampaign ==
    [][\A k \in WorkerIds :
          ((Prepare(k) /\ ~acct) \/ LoadRecipientsFails(k))
             => /\ camp'[CampaignOf(k)].status = "failed"
                /\ sends' = sends /\ gw' = gw
                /\ rcpt' = rcpt
                /\ w'[k].msg # w[k].msg
                /\ pel'[w[k].msg] = pel[w[k].msg]
                /\ pel'[w[k].msg].owner = k]_vars

\* the campaign is failed with its recipients still pending and never sent
\* to, and the entry the worker let go is still pending
C33_Witness ==
    /\ camp[1].status = "failed"
    /\ Pending(1) = RecipientsOf(1) /\ Pending(1) # {}
    /\ \A r \in RecipientIds : sends[r] = 0
    /\ pel[1].owner = "w1" /\ w["w1"].msg # 1 /\ w["w1"].pc # "down"

\* C34: a malformed entry is rejected with a handled error.  The step that
\* handles an entry with no type, an unknown type, no payload or an
\* undecodable payload reports an error without calling the handler: the
\* database and the gateway are untouched, the entry stays pending for the
\* worker, and the worker stays in its loop, at the read of the next entry.
C34_MalformedRejected ==
    [][\A k \in WorkerIds :
          (w[k].pc = "load" /\ stream[w[k].msg] \in ForeignEntries /\ w'[k] # w[k])
             => /\ ProcessMessage(stream[w[k].msg]) # "nil"
                /\ UNCHANGED <<dbVars, sends, gw>>
                /\ pel'[w[k].msg] = pel[w[k].msg] /\ pel'[w[k].msg].owner = k
                /\ w'[k].pc = "read" /\ w'[k].msg = 0]_vars

\* the first entry, malformed, is still pending for the worker, which went
\* on to send for the campaign job appended after it
C34_Witness ==
    /\ Len(stream) >= 2
    /\ stream[1] \in ForeignEntries /\ stream[1].type = "recipient"
    /\ pel[1].owner = "w1"
    /\ w["w1"].msg = 2
    /\ \E r \in RecipientIds : sends[r] = 1

\* the column incrementCampaignStat counts a status in, "" for none
ColumnOf(status) ==
    CASE status = "delivered" -> "delivered_count"
      [] status = "read" -> "read_count"
      [] status = "failed" -> "failed_count"
      [] OTHER -> ""

\* C35: a delivery-status callback increments exactly one counter by one.
\* In the step of a callback the stored value of delivered_count (for
\* delivered), read_count (for read) or failed_count (for failed) of the
\* recipient's campaign grows by one, every other field of the campaign,
\* every other campaign and every recipient are unchanged; a callback with
\* any other status, sent included, changes nothing.
C35_CallbackIncrementsOne ==
    [][\A r \in RecipientIds, status \in {"delivered", "read", "failed"} \cup UncountedStatuses :
          (Callback(r, status) \/ UncountedCallback(r, status))
             => LET c == rcpt[r].camp
                    col == ColumnOf(status)
                IN /\ rcpt' = rcpt
                   /\ \A d \in CampaignIds \ {c} : camp'[d] = camp[d]
                   /\ \A f \in DOMAIN camp[c] :
                         camp'[c][f] = IF f = col THEN camp[c][f] + 1 ELSE camp[c][f]]_vars

\* the gateway reported the only message sent as delivered and then read,
\* and each report was counted once
C35_Witness ==
    /\ \E r \in RecipientIds : gw[r] = "read" /\ rcpt[r].camp = 1
    /\ camp[1].sent_count = 1
    /\ camp[1].delivered_count = 1
    /\ camp[1].read_count = 1

\* C36: a full recompute sets the counters from the ledger.  In the step of
\* a retry-failed that passes its guards, sent_count becomes the number of
\* the campaign's ledger messages with status sent, delivered or read,
\* delivered_count the number with status delivered or read, read_count the
\* number with status read and failed_count the number with status failed,
\* so that read_count <= delivered_count <= sent_count; and when the retry
\* succeeds failed_count is the number of recipients still failed.
C36_RecomputeFromLedger ==
    [][\A c \in CampaignIds :
          (RetryFailed(1, c, FALSE) /\ resp'.code \in {200, 500})
             => /\ camp'[c].sent_count = msgs'[c].sent + msgs'[c].delivered + msgs'[c].read
                /\ camp'[c].delivered_count = msgs'[c].delivered + msgs'[c].read
                /\ camp'[c].read_count = msgs'[c].read
                /\ camp'[c].failed_count = msgs'[c].failed
                /\ camp'[c].read_count <= camp'[c].delivered_count
                /\ camp'[c].delivered_count <= camp'[c].sent_count
                /\ resp'.code = 200
                     => camp'[c].failed_count =
                          Cardinality({r \in RecipientIds :
                              rcpt'[r].camp = c /\ rcpt'[r].status = "failed"})]_vars

\* a retry succeeded over a ledger holding a delivered, a read and a failed
\* message: the failed one is pending and the counters are 2, 2, 1 and 0
C36_Witness ==
    /\ resp = Response("retry", 1, 200, "Retrying failed messages")
    /\ msgs[1] = [pending |-> 1, sent |-> 0, delivered |-> 1, read |-> 1, failed |-> 0]
    /\ camp[1].sent_count = 2
    /\ camp[1].delivered_count = 2
    /\ camp[1].read_count = 1
    /\ camp[1].failed_count = 0

\* C37: import keeps total_recipients equal to the recipient count.
\* Whenever no import request is in flight, total_recipients of every
\* campaign is the number of recipients the campaign owns.
C37_TotalMatchesRecipients ==
    \A c \in CampaignIds :
        (RowExists(c) /\ \A q \in ImportRequests : imp[q].pc = "idle")
            => camp[c].total_recipients = Cardinality(RecipientsOf(c))

\* C38: a start that fails at the enqueue is all-or-nothing.  In the step
\* of a start answered 500 the campaign's status and started_at are left as
\* they were before the request.
C38_FailedStartRestores ==
    [][\A o \in OrgIds, c \in CampaignIds :
          (StartCampaign(o, c, TRUE) /\ resp'.code = 500)
             => /\ camp'[c].status = camp[c].status
                /\ camp'[c].started_at = camp[c].started_at]_vars

\* C39: a job for a campaign that is neither queued nor processing is
\* skipped.  The step that handles a well-formed entry of an existing
\* campaign in any other status acknowledges the entry and lets the worker
\* go, with no gateway call and with every campaign, recipient and ledger
\* row unchanged.
C39_UnprocessableSkipped ==
    [][\A k \in WorkerIds :
          (/\ w[k].pc = "load"
           /\ w'[k] # w[k]
           /\ ProcessMessage(stream[w[k].msg]) = "nil"
           /\ camp[CampaignOf(k)].status \in Statuses \ {"queued", "processing"})
             => /\ UNCHANGED <<dbVars, sends, gw>>
                /\ w'[k].msg # w[k].msg
                /\ w[k].ctx = "live" => pel'[w[k].msg] = NotPending]_vars

\* the start failed after one job was appended and left the campaign in
\* draft; the worker took the job and acknowledged it without sending
C39_Witness ==
    /\ camp[1].status = "draft"
    /\ lastId = 1 /\ pel[1] = NotPending
    /\ w["w1"].pc = "read"
    /\ \A r \in RecipientIds : sends[r] = 0
    /\ Pending(1) # {}

\* the ordinal keys in the order the gateway must receive them
OrdinalKeys == <<"1", "2", "3", "4", "5", "6", "7", "8", "9", "10">>

\* the ordinals whose key is among the recipient's parameters
PresentOrdinals == {i \in DOMAIN OrdinalKeys : OrdinalKeys[i] \in DOMAIN tmpl.params}

\* the j-th smallest ordinal present
NthPresent(j) ==
    CHOOSE i \in PresentOrdinals : Cardinality({x \in PresentOrdinals : x <= i}) = j

\* C40: template body parameters go to the gateway in ascending ordinal
\* order.  After a send, if the recipient has no parameter with a key among
\* "1" .. "10" no component was passed; otherwise exactly one component was
\* passed, of type body, whose parameters are the texts of the keys present
\* among "1", "2", ..., "10" in that order, one text parameter per key, and
\* nothing for any other key.
C40_BodyParamsInOrdinalOrder ==
    tmpl.sent =>
        IF PresentOrdinals = {}
        THEN tmpl.components = <<>>
        ELSE /\ Len(tmpl.components) = 1
             /\ tmpl.components[1].type = "body"
             /\ Len(tmpl.components[1].parameters) = Cardinality(PresentOrdinals)
             /\ \A j \in 1..Cardinality(PresentOrdinals) :
                   tmpl.components[1].parameters[j] =
                       [type |-> "text", text |-> tmpl.params[OrdinalKeys[NthPresent(j)]]]

\* a recipient with parameters "2", "9", "10" and two other keys was sent
\* to: the body carries the texts of "2", "9" and "10" in that order
C40_Witness ==
    /\ tmpl.sent
    /\ DOMAIN tmpl.params = {"2", "9", "10", "0", "name"}
    /\ tmpl.params["2"] = "a" /\ tmpl.params["9"] = "b" /\ tmpl.params["10"] = "a"
    /\ Len(tmpl.components) = 1
    /\ tmpl.components[1].parameters =
          <<[type |-> "text", text |-> "a"], [type |-> "text", text |-> "b"],
            [type |-> "text", text |-> "a"]>>
====
